---- MODULE Spec2Model ----
(***************************************************************************)
(* QrCodeRecognitionAndNamingTool.py as a state machine.                   *)
(*                                                                         *)
(* The state is the target directory (and its parent, which a payload      *)
(* holding "../" reaches), the documents' properties as the three external *)
(* libraries (PyMuPDF, OpenCV, pyzbar) report them, and the position of    *)
(* rename_pdfs_in_folder in its loop together with the locals of           *)
(* extract_qr_code_from_pdf.  One run of the tool is one pass from         *)
(* "listdir" to "done" (the loop is exhausted) or "aborted" (an exception  *)
(* left rename_pdfs_in_folder).                                            *)
(***************************************************************************)
EXTENDS Integers, Sequences, FiniteSets, TLC

\* ------------------------------------------------------------------ bounds
MaxFiles == 2      \* entries of the directory at the start
MaxRuns == 2       \* consecutive runs of the tool

\* ------------------------------------------------------- names and payloads
Platforms == {"windows", "posix"}
Stems == {"a", "b", "c"}
Exts == {"pdf", "PDF", "txt"}
Dirs == {"folder", "parent"}
Names == [stem : Stems, ext : Exts]
Paths == [dir : Dirs, stem : Stems, ext : Exts]

N(s, e) == [stem |-> s, ext |-> e]

\* The names a directory starts with, in a fixed order (Init picks a subset).
NameSeq == << N("a", "pdf"), N("a", "PDF"), N("a", "txt"),
              N("b", "pdf"), N("b", "PDF"), N("b", "txt") >>

\* A decoded payload: the text <stem>, or "../<stem>" when up.  The empty
\* stem stands for Python's None and "" alike (both are falsy).
P(s) == [up |-> FALSE, stem |-> s]
Up(s) == [up |-> TRUE, stem |-> s]
NoPayload == [up |-> FALSE, stem |-> ""]
Payloads == {P("a"), P("b"), P("c"), Up("a")}

\* str.lower() on the suffix of a name (the stems of the model are lower case).
Lower(e) == IF e = "PDF" THEN "pdf" ELSE e

\* filename.lower().endswith(".pdf")
EndsWithPdf(n) == Lower(n.ext) = "pdf"

\* os.path.join(folder_path, filename)
Folder(n) == [dir |-> "folder", stem |-> n.stem, ext |-> n.ext]

\* os.path.abspath(os.path.join(folder_path, f"{qr_content}.pdf")): a payload
\* "../x" resolves to <parent of folder>/x.pdf.
NewPath(p) ==
  [dir |-> IF p.up THEN "parent" ELSE "folder", stem |-> p.stem, ext |-> "pdf"]

\* os.path.abspath(pdf_path) == os.path.abspath(new_path): string equality.
SamePath_Never(src, dst) == FALSE
SamePath(src, dst) == src = dst

\* if qr_content:
Truthy(p) == p.stem # ""

\* --------------------------------------------------------------- documents
\* What the libraries report for a document:
\*   kind      file, or dir (a subdirectory: fitz.open raises)
\*   fail      the first statement of lines 56-59 that raises, or "none"
\*   norm      preprocess_image succeeds (else it returns its input)
\*   detect    QRCodeDetector.detect on the page: found / none / error
\*   primary   pyzbar decode on the cropped raster: symbol / none / raise
\*   utf8      the first symbol's bytes are valid UTF-8
\*   secondary detectAndDecode on the cropped raster: data / empty / raise
\*   payload   the text the QR code encodes
D(k, f, n, d, p, u, s, pl) ==
  [kind |-> k, fail |-> f, norm |-> n, detect |-> d, primary |-> p,
   utf8 |-> u, secondary |-> s, payload |-> pl]

Readable(pl) == D("file", "none", TRUE, "found", "symbol", TRUE, "empty", pl)
Blank == D("file", "none", TRUE, "none", "none", TRUE, "empty", P("a"))
Directory == D("dir", "open", FALSE, "none", "none", TRUE, "empty", P("a"))
Corrupt == D("file", "open", FALSE, "none", "none", TRUE, "empty", P("a"))
NoPage == D("file", "page", FALSE, "none", "none", TRUE, "empty", P("a"))
RenderFails == D("file", "render", FALSE, "none", "none", TRUE, "empty", P("a"))
FromBytesFails == D("file", "frombytes", FALSE, "none", "none", TRUE, "empty", P("a"))
PrimaryRaises == D("file", "none", TRUE, "found", "raise", TRUE, "data", P("a"))
SecondaryOnly == D("file", "none", FALSE, "none", "none", TRUE, "data", P("b"))
SecondaryRaises == D("file", "none", TRUE, "error", "none", TRUE, "raise", P("a"))
BadUtf8 == D("file", "none", TRUE, "found", "symbol", FALSE, "data", P("a"))

\* Documents that decode at once to a plain name, or not at all.
PlainDocs == {Readable(pl) : pl \in {q \in Payloads : ~q.up}} \cup {Blank}
\* Every kind of file.
FileDocs == {Readable(pl) : pl \in Payloads} \cup
            {Blank, Corrupt, NoPage, RenderFails, FromBytesFails,
             PrimaryRaises, SecondaryOnly, SecondaryRaises, BadUtf8}
\* Every kind of directory entry: files and subdirectories.
TreeDocs == FileDocs \cup {Directory}

\* ---------------------------------------------------------------- rasters
\* pix (page.get_pixmap), page (Image.frombytes), normalized (Image.fromarray
\* in preprocess_image), converted (image.convert in detect_and_crop_qr_code),
\* cropped (image.crop).  A raster is none (not created), open, closed
\* (close() was called) or dropped (no name refers to it any more).
Rasters == {"pix", "page", "normalized", "converted", "cropped"}
NoRasters == [r \in Rasters |-> "none"]

VARIABLES
  platform,       \* the os module's platform
  docs,           \* document id -> what the libraries report for it
  fs,             \* path -> document id at that path, 0 when there is none
  fs0,            \* fs at the start of the first run
  run,            \* number of the current run
  prevClean,      \* the previous run skipped no rename (conflict or error)
  pc,             \* position in rename_pdfs_in_folder / extract_qr_code_from_pdf
  listing,        \* os.listdir(folder_path) of this run
  idx,            \* position of the for loop in listing
  cur,            \* id of the document fitz.open was given (0: none yet)
  handle,         \* pdf_document: none / open / closed
  rasters,        \* raster -> status, for the document being (or last) extracted
  image,          \* the local `image`: unbound or a raster
  cropped_image,  \* the local `cropped_image`: unbound or a raster
  result,         \* the value extract_qr_code_from_pdf returns
  errored,        \* line 82 printed "Error processing" for this file
  calls,          \* the decoders invoked for this file, in order
  opened,         \* <<name, id>> of every entry handed to extract_qr_code_from_pdf
  outcomes        \* this run's per-file outcomes, in order

vars == << platform, docs, fs, fs0, run, prevClean, pc, listing, idx, cur, handle,
           rasters, image, cropped_image, result, errored, calls, opened, outcomes >>

locals == << cur, handle, rasters, image, cropped_image, result, errored, calls >>

\* ----------------------------------------------------------- the directory
\* Two names denote the same entry: Windows folds case, POSIX does not.
SameEntry(pf, q, p) ==
  /\ q.dir = p.dir
  /\ q.stem = p.stem
  /\ IF pf = "windows" THEN Lower(q.ext) = Lower(p.ext) ELSE q.ext = p.ext

Occupant(pf, f, p) == {q \in Paths : f[q] # 0 /\ SameEntry(pf, q, p)}

FolderNames(f) == {N(q.stem, q.ext) : q \in {r \in Paths : r.dir = "folder" /\ f[r] # 0}}

Perms(S) ==
  {s \in [1..Cardinality(S) -> S] : \A i, j \in 1..Cardinality(S) : i # j => s[i] # s[j]}

\* os.rename(src, dst).  Windows raises FileExistsError whenever dst exists
\* (a change of case of src itself is no other entry); POSIX replaces an
\* existing file silently and raises IsADirectoryError on a directory.
OsRename(pf, f, dk, src, dst) ==
  LET occ == Occupant(pf, f, dst) \ {src}
      moved == [f EXCEPT ![src] = 0, ![dst] = f[src]]
  IN  IF occ = {} THEN [status |-> "ok", fs |-> moved]
      ELSE IF pf = "windows" THEN [status |-> "exists", fs |-> f]
      ELSE IF \E q \in occ : dk[f[q]].kind = "dir" THEN [status |-> "error", fs |-> f]
      ELSE [status |-> "ok", fs |-> moved]

\* ------------------------------------------------------------------- Init
InitWith(DocSet, NameIdx) ==
  /\ platform \in Platforms
  /\ \E S \in SUBSET NameIdx :
       /\ Cardinality(S) <= MaxFiles
       /\ platform = "windows" =>
            \A i, j \in S : i # j => ~SameEntry("windows", Folder(NameSeq[i]), Folder(NameSeq[j]))
       /\ docs \in [1..Cardinality(S) -> DocSet]
       /\ fs = [p \in Paths |->
                  IF \E i \in S : Folder(NameSeq[i]) = p
                  THEN Cardinality({j \in S : Folder(NameSeq[j]) = p
                                              \/ j < CHOOSE i \in S : Folder(NameSeq[i]) = p})
                  ELSE 0]
  /\ fs0 = fs
  /\ run = 1
  /\ prevClean = FALSE
  /\ pc = "listdir"
  /\ listing = << >>
  /\ idx = 1
  /\ cur = 0
  /\ handle = "none"
  /\ rasters = NoRasters
  /\ image = "unbound"
  /\ cropped_image = "unbound"
  /\ result = NoPayload
  /\ errored = FALSE
  /\ calls = << >>
  /\ opened = {}
  /\ outcomes = << >>

\* A directory of at most MaxFiles files of any kind.
Init == InitWith(FileDocs, 1..Len(NameSeq))

\* A directory of at most MaxFiles files and subdirectories.
InitTree == InitWith(TreeDocs, 1..Len(NameSeq))

\* Any entries, under the names a.pdf, a.txt and b.PDF.
InitDecode == InitWith(TreeDocs, {1, 3, 5})

\* Files that decode at once to a plain name, or not at all, under any names.
InitRuns == InitWith(PlainDocs, 1..Len(NameSeq))

\* ---------------------------------------------------------------- actions
\* line 110: os.listdir(folder_path), evaluated once, in any order.
ListDir ==
  /\ pc = "listdir"
  /\ listing' \in Perms(FolderNames(fs))
  /\ idx' = 1
  /\ pc' = "loop"
  /\ UNCHANGED << platform, docs, fs, fs0, run, prevClean, locals, opened, outcomes >>

\* lines 110-114: the next entry; a name without the suffix is passed over,
\* any other is handed to extract_qr_code_from_pdf with fresh locals.
Iterate ==
  /\ pc = "loop"
  /\ idx <= Len(listing)
  /\ IF EndsWithPdf(listing[idx])
     THEN /\ pc' = "open"
          /\ opened' = opened \cup {<< listing[idx], fs[Folder(listing[idx])] >>}
          /\ cur' = 0
          /\ handle' = "none"
          /\ rasters' = NoRasters
          /\ image' = "unbound"
          /\ cropped_image' = "unbound"
          /\ result' = NoPayload
          /\ errored' = FALSE
          /\ calls' = << >>
          /\ UNCHANGED idx
     ELSE /\ idx' = idx + 1
          /\ UNCHANGED << pc, opened, locals >>
  /\ UNCHANGED << platform, docs, fs, fs0, run, prevClean, listing, outcomes >>

\* line 110: the listing is exhausted and rename_pdfs_in_folder returns.
Finish ==
  /\ pc = "loop"
  /\ idx > Len(listing)
  /\ pc' = "done"
  /\ UNCHANGED << platform, docs, fs, fs0, run, prevClean, listing, idx, locals,
                  opened, outcomes >>

\* lines 56-59: fitz.open, pdf_document[0], get_pixmap, Image.frombytes.  An
\* exception leaves the with block (closing the handle if it was opened) and
\* is caught at line 81.
OpenAndRender ==
  /\ pc = "open"
  /\ LET d == fs[Folder(listing[idx])]
         fail == IF d = 0 \/ docs[d].kind = "dir" THEN "open" ELSE docs[d].fail
     IN  /\ cur' = d
         /\ CASE fail = "open" ->
                   /\ errored' = TRUE
                   /\ pc' = "finally"
                   /\ UNCHANGED << handle, rasters, image >>
              [] fail \in {"page", "render"} ->
                   /\ handle' = "closed"
                   /\ errored' = TRUE
                   /\ pc' = "finally"
                   /\ UNCHANGED << rasters, image >>
              [] fail = "frombytes" ->
                   /\ handle' = "closed"
                   /\ rasters' = [rasters EXCEPT !["pix"] = "open"]
                   /\ errored' = TRUE
                   /\ pc' = "finally"
                   /\ UNCHANGED image
              [] OTHER ->
                   /\ handle' = "open"
                   /\ rasters' = [rasters EXCEPT !["pix"] = "open", !["page"] = "open"]
                   /\ image' = "page"
                   /\ pc' = "normalize"
                   /\ UNCHANGED errored
  /\ UNCHANGED << platform, docs, fs, fs0, run, prevClean, listing, idx,
                  cropped_image, result, calls, opened, outcomes >>

\* line 62 (preprocess_image, lines 38-48): `image` is rebound to the binarized
\* raster, which drops the page raster; on failure `image` stays the page.
Preprocess ==
  /\ pc = "normalize"
  /\ IF docs[cur].norm
     THEN /\ rasters' = [rasters EXCEPT !["normalized"] = "open", !["page"] = "dropped"]
          /\ image' = "normalized"
     ELSE UNCHANGED << rasters, image >>
  /\ pc' = "crop"
  /\ UNCHANGED << platform, docs, fs, fs0, run, prevClean, listing, idx, cur, handle,
                  cropped_image, result, errored, calls, opened, outcomes >>

\* line 65 (detect_and_crop_qr_code, lines 10-36): a binarized raster (mode
\* "L") is converted to RGB first; the result is the crop when a code is
\* detected, else the (converted) full image, also when detection raises.
DetectAndCrop ==
  /\ pc = "crop"
  /\ LET conv == image = "normalized"
         full == IF conv THEN "converted" ELSE image
     IN  IF docs[cur].detect = "found"
         THEN /\ rasters' = [r \in Rasters |->
                               IF r = "cropped" THEN "open"
                               ELSE IF r = "converted" /\ conv THEN "dropped"
                               ELSE rasters[r]]
              /\ cropped_image' = "cropped"
         ELSE /\ rasters' = [r \in Rasters |->
                               IF r = "converted" /\ conv THEN "open" ELSE rasters[r]]
              /\ cropped_image' = full
  /\ pc' = "primary"
  /\ UNCHANGED << platform, docs, fs, fs0, run, prevClean, listing, idx, cur, handle,
                  image, result, errored, calls, opened, outcomes >>

\* lines 72-74: pyzbar's decode restricted to QR symbols; with a symbol the
\* function returns its text, without one it goes on to OpenCV, and an
\* exception (of decode, or of bytes.decode("utf-8")) is caught at line 81.
PrimaryDecode_FallThrough ==
  /\ pc = "primary"
  /\ calls' = Append(calls, "primary")
  /\ IF docs[cur].primary = "raise" \/ (docs[cur].primary = "symbol" /\ ~docs[cur].utf8)
     THEN /\ errored' = TRUE
          /\ handle' = "closed"
          /\ pc' = "finally"
          /\ UNCHANGED result
     ELSE /\ pc' = "secondary"
          /\ UNCHANGED << handle, result, errored >>
  /\ UNCHANGED << platform, docs, fs, fs0, run, prevClean, listing, idx, cur,
                  rasters, image, cropped_image, opened, outcomes >>
PrimaryDecode ==
  /\ pc = "primary"
  /\ calls' = Append(calls, "primary")
  /\ CASE docs[cur].primary = "none" ->
            /\ pc' = "secondary"
            /\ UNCHANGED << handle, result, errored >>
       [] docs[cur].primary = "symbol" /\ docs[cur].utf8 ->
            /\ result' = docs[cur].payload
            /\ handle' = "closed"
            /\ pc' = "finally"
            /\ UNCHANGED errored
       [] OTHER ->
            /\ errored' = TRUE
            /\ handle' = "closed"
            /\ pc' = "finally"
            /\ UNCHANGED result
  /\ UNCHANGED << platform, docs, fs, fs0, run, prevClean, listing, idx, cur,
                  rasters, image, cropped_image, opened, outcomes >>

\* lines 78-80 (extract_qr_code_with_opencv, lines 89-104): detectAndDecode on
\* the same raster; its own exception handler turns an error into None, and
\* an empty text falls through to `return None`.
SecondaryDecode ==
  /\ pc = "secondary"
  /\ calls' = Append(calls, "secondary")
  /\ result' = IF docs[cur].secondary = "data" THEN docs[cur].payload ELSE NoPayload
  /\ handle' = "closed"
  /\ pc' = "finally"
  /\ UNCHANGED << platform, docs, fs, fs0, run, prevClean, listing, idx, cur,
                  rasters, image, cropped_image, errored, opened, outcomes >>

\* lines 83-87: image.close(); cropped_image.close().  With `image` unbound the
\* first statement raises UnboundLocalError, which nothing catches: it leaves
\* extract_qr_code_from_pdf and rename_pdfs_in_folder.  The other locals go
\* out of scope when the frame is left.
Release ==
  /\ pc = "finally"
  /\ IF image = "unbound"
     THEN /\ rasters' = [r \in Rasters |-> IF rasters[r] = "open" THEN "dropped" ELSE rasters[r]]
          /\ pc' = "aborted"
     ELSE /\ rasters' = [r \in Rasters |->
                           IF r \in {image, cropped_image} THEN "closed"
                           ELSE IF rasters[r] = "open" THEN "dropped"
                           ELSE rasters[r]]
          /\ pc' = "decide"
  /\ UNCHANGED << platform, docs, fs, fs0, run, prevClean, listing, idx, cur, handle,
                  image, cropped_image, result, errored, calls, opened, outcomes >>

\* lines 115-130: the rename decision for the file just extracted.
Outcome(n, st, tgt, occ, f2) ==
  [name |-> n, doc |-> cur, outcome |-> st, target |-> tgt, occupied |-> occ,
   changed |-> f2 # fs,
   others |-> \E q \in Paths : q \notin {Folder(n), tgt} /\ f2[q] # fs[q]]

Decide ==
  /\ pc = "decide"
  /\ LET n == listing[idx]
         src == Folder(n)
         dst == NewPath(result)
         r == OsRename(platform, fs, docs, src, dst)
         occ == Occupant(platform, fs, dst) \ {src} # {}
     IN  IF ~Truthy(result)
         THEN /\ outcomes' = Append(outcomes,
                   Outcome(n, IF errored THEN "failed" ELSE "not-found", src, FALSE, fs))
              /\ UNCHANGED fs
         ELSE IF SamePath(src, dst)
         THEN /\ outcomes' = Append(outcomes, Outcome(n, "already-correct", dst, FALSE, fs))
              /\ UNCHANGED fs
         ELSE /\ fs' = r.fs
              /\ outcomes' = Append(outcomes,
                   Outcome(n, CASE r.status = "ok" -> "renamed"
                                [] r.status = "exists" -> "conflict"
                                [] OTHER -> "error",
                           dst, occ, r.fs))
  /\ idx' = idx + 1
  /\ pc' = "loop"
  /\ UNCHANGED << platform, docs, fs0, run, prevClean, listing, locals, opened >>

\* The tool is started again after a run that completed.
NextRun ==
  /\ pc = "done"
  /\ run < MaxRuns
  /\ run' = run + 1
  /\ prevClean' = \A k \in 1..Len(outcomes) : outcomes[k].outcome \notin {"conflict", "error"}
  /\ pc' = "listdir"
  /\ listing' = << >>
  /\ idx' = 1
  /\ opened' = {}
  /\ outcomes' = << >>
  /\ UNCHANGED << platform, docs, fs, fs0, locals >>

OneRun ==
  \/ ListDir
  \/ Iterate
  \/ Finish
  \/ OpenAndRender
  \/ Preprocess
  \/ DetectAndCrop
  \/ PrimaryDecode
  \/ SecondaryDecode
  \/ Release
  \/ Decide

Next == OneRun \/ NextRun

\* Consecutive runs over a directory of files.
Spec == Init /\ [][Next]_vars

\* Consecutive runs over a directory of files and subdirectories.
SpecTree == InitTree /\ [][Next]_vars

\* One run over any entries under three fixed names.
SpecDecode == InitDecode /\ [][OneRun]_vars

\* Consecutive runs over files that decode at once or not at all.
SpecRuns == InitRuns /\ [][Next]_vars

\* ----------------------------------------------------------------- claims
PdfListing == SelectSeq(listing, EndsWithPdf)
Attempted(o) == o.outcome \in {"renamed", "conflict", "error"}
Left == pc \in {"listdir", "loop", "decide", "done", "aborted"}

\* C1: every error raised while one PDF is processed is contained at that
\* file: no exception leaves extract_qr_code_from_pdf or the loop body, and
\* when the run is over every PDF of the listing has got an outcome.
C1_ErrorsContained ==
  /\ pc # "aborted"
  /\ pc = "done" => Len(outcomes) = Len(PdfListing)

\* C2: when the target p.pdf of a decoded file is another entry that exists
\* at that moment, the outcome is skipped-conflict and the directory is left
\* as it was (no rename, nothing overwritten or removed).
C2_CollisionSafety ==
  \A k \in 1..Len(outcomes) :
    outcomes[k].occupied => outcomes[k].outcome = "conflict" /\ ~outcomes[k].changed

\* C3 (as stated): a run directly after a completed run performs no rename
\* and leaves the directory as the first run left it.
C3_SecondRunRenamesNothing ==
  run >= 2 =>
    \A k \in 1..Len(outcomes) : outcomes[k].outcome # "renamed" /\ ~outcomes[k].changed

\* C3 (amended): a run directly after a completed run that skipped no rename
\* (no conflict, no rename error) performs no rename and leaves the directory
\* as that run left it.
C3_SecondRunAfterCleanRun ==
  (run >= 2 /\ prevClean) =>
    \A k \in 1..Len(outcomes) : outcomes[k].outcome # "renamed" /\ ~outcomes[k].changed

\* C3 witness: a second run has ended after a first run that renamed a file
\* and skipped none, and it found a file already named after its payload.
C3_Witness ==
  /\ run = 2
  /\ pc = "done"
  /\ prevClean
  /\ fs # fs0
  /\ \E k \in 1..Len(outcomes) : outcomes[k].outcome = "already-correct"

\* C4: a later file sees the renames of earlier files of the run: a target in
\* the directory that an earlier rename created gives skipped-conflict, and a
\* target that an earlier rename freed (and that is free now) is renamed to.
C4_LaterSeesEarlier ==
  \A j, k \in 1..Len(outcomes) :
    (j < k /\ outcomes[j].outcome = "renamed" /\ Attempted(outcomes[k])
       /\ outcomes[k].target.dir = "folder") =>
      /\ (outcomes[k].target = outcomes[j].target /\ outcomes[k].occupied)
            => outcomes[k].outcome = "conflict"
      /\ (outcomes[k].target = Folder(outcomes[j].name) /\ ~outcomes[k].occupied)
            => outcomes[k].outcome = "renamed"

\* C5: for each file the primary decoder is attempted before the secondary,
\* each at most once, and the secondary never after the primary returned a
\* symbol.
C5_DecoderOrder ==
  /\ calls \in { << >>, << "primary" >>, << "primary", "secondary" >> }
  /\ (cur # 0 /\ docs[cur].primary = "symbol") =>
        \A i \in 1..Len(calls) : calls[i] # "secondary"

\* C5 witness: extraction has returned the payload of a file whose primary
\* decode found a symbol, having called the primary decoder alone.
C5_Witness ==
  /\ pc = "decide"
  /\ cur # 0
  /\ docs[cur].primary = "symbol"
  /\ calls = << "primary" >>
  /\ Truthy(result)

\* C6: on every way out of extract_qr_code_from_pdf (a payload, no payload,
\* an exception at any step) the orchestrator goes on with the document
\* handle closed and no raster of the document still held open.
C6_ReleasedOnEveryExit ==
  Left =>
    /\ pc # "aborted"
    /\ handle # "open"
    /\ \A r \in Rasters : rasters[r] # "open"

\* C7: a rename whose target differs from the source and does not exist
\* succeeds, puts the file's content at the target, removes the old name,
\* changes no other entry, and keeps the file inside the directory.
C7_RenameResult ==
  \A k \in 1..Len(outcomes) :
    (Attempted(outcomes[k]) /\ ~outcomes[k].occupied) =>
      /\ outcomes[k].outcome = "renamed"
      /\ ~outcomes[k].others
      /\ outcomes[k].target.dir = "folder"
      /\ (k = Len(outcomes) /\ pc = "loop") =>
            /\ fs[outcomes[k].target] = outcomes[k].doc
            /\ fs[Folder(outcomes[k].name)] = 0

\* C8: an entry without the .pdf suffix (in any case) is never opened, decoded
\* or renamed, subdirectories are ignored, and a directory of non-PDF entries
\* sees no decode attempt and stays as it was.
C8_NonPdfUntouched ==
  /\ \A e \in opened : EndsWithPdf(e[1]) /\ (e[2] # 0 => docs[e[2]].kind = "file")
  /\ \A q \in Paths :
       (q.dir = "folder" /\ ~EndsWithPdf(N(q.stem, q.ext))) => fs[q] = fs0[q]
  /\ (\A n \in FolderNames(fs0) : ~EndsWithPdf(n)) =>
       (fs = fs0 /\ opened = {} /\ calls = << >>)

\* C9: when the primary decoder yields no payload, by finding no symbol or by
\* failing, the secondary decoder has been attempted exactly once when the
\* chain returns.
C9_SecondaryAfterPrimaryFailure ==
  (pc \in {"finally", "decide"} /\ cur # 0 /\ calls # << >>
     /\ docs[cur].primary \in {"none", "raise"}) =>
    calls = << "primary", "secondary" >>

\* C10: the PDFs of the listing taken at the start are processed one after the
\* other in listing order, each once and each present when its turn comes, and
\* the run ends only after the last of them.
C10_ListingProcessedOnce ==
  /\ Len(outcomes) <= Len(PdfListing)
  /\ \A k \in 1..Len(outcomes) : outcomes[k].name = PdfListing[k]
  /\ \A e \in opened : e[2] # 0
  /\ pc \in {"done", "aborted"} => Len(outcomes) = Len(PdfListing)

====
